---- MODULE Spec2Model ----
(***************************************************************************)
(* Model of cyphon/monitors/models.py: a Monitor watches Distilleries for  *)
(* saved documents, recomputes its status on every save() and generates    *)
(* Alerts from update_status().                                            *)
(*                                                                         *)
(* Time is a discrete clock `now` (seconds); the Monitor's time_unit is    *)
(* seconds, so _get_interval_in_seconds is time_interval itself.  Every    *)
(* datetime field holds a clock value, or None when it is null.            *)
(*                                                                         *)
(* update_status is two steps, UpdateStatus (old_status, save(), the test  *)
(* of the status) and Alert (_alert and the return): the clock and the     *)
(* Distilleries may move between the two.  Each save() is one step.        *)
(***************************************************************************)
EXTENDS Integers, Sequences, FiniteSets, TLC

\* ---------------------------------------------------------------- bounds
MaxTime == 3
MaxAlerts == 2

\* ------------------------------------------------------------- constants
None == -1
NoSink == "None"
NoDoc == <<>>
HEALTHY == "GREEN"
UNHEALTHY == "RED"
Blank == ""
\* time_interval is an IntegerField: 0 makes any silence overdue
Intervals == {0, 1, 2}
Distilleries == {"A", "B"}
Orders == {<<"A", "B">>, <<"B", "A">>}
Times == 0..MaxTime

VARIABLES
    now,        \* timezone.now()
    docs,       \* docs[d]: the date of the newest document saved in
                \* Distillery d (None when it holds none); a query sorted
                \* by date DESC with page_size=1 reads nothing else
    monitor,    \* the Monitor's fields
    alerts,     \* the Alerts created so far, oldest first
    pc,         \* position in update_status: "idle" or "alert"
    old_status, \* update_status's local old_status (Blank outside a call)
    last_call,  \* history: <<the last update_status call>>, or <<>> when
                \* none was made or another save() followed it
    episode,    \* history: Alerts created in the current unhealthy episode
    row,        \* the Monitor's row in the database, where a specification
                \* keeps it apart from the instance in memory (<<>>: unused)
    workers,    \* SpecConcurrent: each worker's Monitor instance and its
                \* position in update_status
    raised,     \* SpecFailures: the exception that left the call (Blank: none)
    before      \* SpecFailures, history: the Monitor and the number of Alerts
                \* when the running call started

vars == <<now, docs, monitor, alerts, pc, old_status, last_call, episode,
          row, workers, raised, before>>

\* the variables Spec does not use
aux == <<row, workers, raised, before>>

\* --------------------------------------------------------------- helpers
DocId(d, date) == <<d, date>>

\* ------------------------------------------------------- status evaluator
GetIntervalInSeconds(m) == m.time_interval

GetInactiveSeconds(m, t) ==
    IF m.last_healthy # None \/ m.created_date # None
    THEN IF m.last_healthy # None
         THEN t - m.last_healthy
         ELSE t - m.created_date
    ELSE 0

GetLastAlertSeconds(m, t) ==
    IF m.last_alert_date # None THEN t - m.last_alert_date ELSE None

IsOverdueNonStrict(m, t) == GetInactiveSeconds(m, t) >= GetIntervalInSeconds(m)

IsOverdue(m, t) == GetInactiveSeconds(m, t) > GetIntervalInSeconds(m)

SetCurrentStatus(m, t) ==
    IF IsOverdue(m, t)
    THEN [m EXCEPT !.status = UNHEALTHY]
    ELSE [m EXCEPT !.status = HEALTHY]

\* ------------------------------------------------------- activity scanner
GetIntervalStart(m, t) == t - GetIntervalInSeconds(m)

GetQueryStartTimeLater(m, t) ==
    LET interval_start == GetIntervalStart(m, t)
    IN  IF m.last_healthy # None /\ m.last_healthy >= interval_start
        THEN m.last_healthy
        ELSE interval_start

GetQueryStartTimeWindow(m, t) == GetIntervalStart(m, t)

GetQueryStartTime(m, t) ==
    LET interval_start == GetIntervalStart(m, t)
    IN  IF m.last_healthy # None /\ m.last_healthy < interval_start
        THEN m.last_healthy
        ELSE interval_start

GetSearchableDateField(d) == d \in Distilleries

\* find(query: date > start, sorter: date DESC, page=1, page_size=1)
Find(d, start) ==
    IF docs[d] # None /\ docs[d] > start THEN docs[d] ELSE None

GetMostRecentDoc(m, d, t) ==
    IF GetSearchableDateField(d)
    THEN Find(d, GetQueryStartTime(m, t))
    ELSE None

\* the body of _update_doc_info's loop for Distillery d
ConsiderDocAlways(m, d, t) ==
    LET date == GetMostRecentDoc(m, d, t)
    IN  IF date # None
        THEN [m EXCEPT !.last_healthy = date,
                       !.last_active_distillery = d,
                       !.last_saved_doc = DocId(d, date)]
        ELSE m

ConsiderDocFirstOnly(m, d, t) ==
    LET date == GetMostRecentDoc(m, d, t)
    IN  IF date # None /\ m.last_healthy = None
        THEN [m EXCEPT !.last_healthy = date,
                       !.last_active_distillery = d,
                       !.last_saved_doc = DocId(d, date)]
        ELSE m

ConsiderDoc(m, d, t) ==
    LET date == GetMostRecentDoc(m, d, t)
    IN  IF date # None /\ (m.last_healthy = None \/ date > m.last_healthy)
        THEN [m EXCEPT !.last_healthy = date,
                       !.last_active_distillery = d,
                       !.last_saved_doc = DocId(d, date)]
        ELSE m

RECURSIVE UpdateDocInfo(_, _, _)
UpdateDocInfo(m, order, t) ==
    IF order = <<>>
    THEN m
    ELSE UpdateDocInfo(ConsiderDoc(m, Head(order), t), Tail(order), t)

\* history of the queries issued by UpdateDocInfo(m, order, t), in order
QueryTrace(m, order, t) ==
    [i \in 1..Len(order) |->
        LET mi == UpdateDocInfo(m, SubSeq(order, 1, i - 1), t)
        IN  [distillery |-> order[i],
             last_healthy |-> mi.last_healthy,
             interval_start |-> GetIntervalStart(mi, t),
             start_time |-> GetQueryStartTime(mi, t)]]

UpdateFieldsAlwaysScan(m, order, t) ==
    SetCurrentStatus(UpdateDocInfo(m, order, t), t)

UpdateFields(m, order, t) ==
    IF m.id # None
    THEN SetCurrentStatus(UpdateDocInfo(m, order, t), t)
    ELSE SetCurrentStatus(m, t)

\* Monitor.save: _update_fields, then the database write
SaveMonitor(m, order, t) ==
    LET u == UpdateFields(m, order, t)
    IN  [u EXCEPT !.id = 1,
                  !.created_date = IF m.id = None THEN t ELSE m.created_date]

\* ----------------------------------------------------------- alert policy
AlertDueNever(m, t) ==
    GetLastAlertSeconds(m, t) = None

\* `if last_alert_time:` is false for None and for 0 seconds
AlertDue(m, t) ==
    LET last_alert_time == GetLastAlertSeconds(m, t)
    IN  IF last_alert_time # None /\ last_alert_time # 0
        THEN last_alert_time > GetIntervalInSeconds(m)
        ELSE TRUE

ShouldAlertIgnoringSwitch(m, old, t) ==
    LET repeat_alert == m.repeating_alerts /\ AlertDue(m, t)
        status_changed == old # UNHEALTHY
    IN  repeat_alert \/ status_changed

ShouldAlertAlways(m, old, t) == m.alerts_enabled

ShouldAlertRepeatOnly(m, old, t) ==
    m.alerts_enabled /\ m.repeating_alerts /\ AlertDue(m, t)

ShouldAlertOnChange(m, old, t) ==
    m.alerts_enabled /\ old # UNHEALTHY

ShouldAlert(m, old, t) ==
    LET repeat_alert == m.repeating_alerts /\ AlertDue(m, t)
        status_changed == old # UNHEALTHY
    IN  m.alerts_enabled /\ (repeat_alert \/ status_changed)

\* ---------------------------------------------------------- alert emitter
\* Alert.save(): the Alert store numbers the Alert and dates it at creation
AlertPk == Len(alerts) + 1

AlertCreatedDate(t) == t

CreateAlertNoContext(m, t) ==
    [pk |-> AlertPk,
     created_date |-> AlertCreatedDate(t),
     level |-> m.alert_level,
     distillery |-> NoSink,
     doc_id |-> NoDoc]

CreateAlert(m, t) ==
    [pk |-> AlertPk,
     created_date |-> AlertCreatedDate(t),
     level |-> m.alert_level,
     distillery |-> m.last_active_distillery,
     doc_id |-> m.last_saved_doc]

\* lines 362-363: the Alert's created_date and pk written to the Monitor
RecordAlertDateOnly(m, alert) ==
    [m EXCEPT !.last_alert_date = alert.created_date]

RecordAlert(m, alert) ==
    [m EXCEPT !.last_alert_date = alert.created_date,
              !.last_alert_id = alert.pk]

\* --------------------------------------------------------- update_status
StatusAny(m) == TRUE

StatusIsHealthy(m) == m.status = HEALTHY

\* line 408: if self.status == self._UNHEALTHY
StatusIsUnhealthy(m) == m.status = UNHEALTHY

\* ------------------------------------------------------------------ init
NewMonitor(iv, ae, ra) ==
    [id |-> None,
     time_interval |-> iv,
     alerts_enabled |-> ae,
     repeating_alerts |-> ra,
     alert_level |-> "HIGH",
     status |-> Blank,
     created_date |-> None,
     last_healthy |-> None,
     last_active_distillery |-> NoSink,
     last_saved_doc |-> NoDoc,
     last_alert_date |-> None,
     last_alert_id |-> None]

Init ==
    /\ now = 0
    /\ docs = [d \in Distilleries |-> None]
    /\ \E iv \in Intervals, ae \in BOOLEAN, ra \in BOOLEAN :
          monitor = NewMonitor(iv, ae, ra)
    /\ alerts = <<>>
    /\ pc = "idle"
    /\ old_status = Blank
    /\ last_call = <<>>
    /\ episode = 0
    /\ row = <<>>
    /\ workers = <<>>
    /\ raised = Blank
    /\ before = <<>>

\* --------------------------------------------------------------- history
Call(old, m, fired) == [old |-> old, ret |-> m.status, fired |-> fired]

EpisodeAfter(m, fired) ==
    IF m.status = UNHEALTHY THEN episode + fired ELSE 0

\* --------------------------------------------------------------- actions
Tick ==
    /\ now < MaxTime
    /\ now' = now + 1
    /\ UNCHANGED <<docs, monitor, alerts, pc, old_status, last_call, episode, aux>>

\* a document dated `date` is saved in Distillery d; one that is not the
\* newest of d changes no query result
DocSaved ==
    /\ \E d \in Distilleries, date \in 0..now :
          /\ date > docs[d]
          /\ docs' = [docs EXCEPT ![d] = date]
    /\ UNCHANGED <<now, monitor, alerts, pc, old_status, last_call, episode, aux>>

Save ==
    /\ pc = "idle"
    /\ \E order \in Orders : monitor' = SaveMonitor(monitor, order, now)
    /\ last_call' = <<>>
    /\ episode' = EpisodeAfter(monitor', 0)
    /\ UNCHANGED <<now, docs, alerts, pc, old_status, aux>>

\* update_status up to the test of self.status; it returns at once when the
\* status is not unhealthy
UpdateStatus ==
    /\ pc = "idle"
    /\ Len(alerts) < MaxAlerts
    /\ \E order \in Orders : monitor' = SaveMonitor(monitor, order, now)
    /\ episode' = EpisodeAfter(monitor', 0)
    /\ IF StatusIsUnhealthy(monitor')
       THEN /\ pc' = "alert"
            /\ old_status' = monitor.status
            /\ last_call' = last_call
       ELSE /\ pc' = "idle"
            /\ old_status' = Blank
            /\ last_call' = <<Call(monitor.status, monitor', 0)>>
    /\ UNCHANGED <<now, docs, alerts, aux>>

\* update_status from the call of _alert(old_status) to its return
Alert ==
    /\ pc = "alert"
    /\ pc' = "idle"
    /\ old_status' = Blank
    /\ IF ShouldAlert(monitor, old_status, now)
       THEN LET alert == CreateAlert(monitor, now)
                m == RecordAlert(monitor, alert)
            IN  /\ alerts' = Append(alerts, alert)
                /\ \E order \in Orders : monitor' = SaveMonitor(m, order, now)
                /\ episode' = EpisodeAfter(monitor', 1)
                /\ last_call' = <<Call(old_status, monitor', 1)>>
       ELSE /\ last_call' = <<Call(old_status, monitor, 0)>>
            /\ UNCHANGED <<monitor, alerts, episode>>
    /\ UNCHANGED <<now, docs, aux>>

Next == Tick \/ DocSaved \/ Save \/ UpdateStatus \/ Alert

Spec == Init /\ [][Next]_vars

\* ------------------------------------------- failing queries and stores
\* SpecFailures: one caller; `monitor` is its Monitor instance and `row`
\* what the database holds; Distillery.find and Alert.save may raise.
FindError == "find"
AlertSaveError == "alert.save"

Snapshot == [monitor |-> monitor, alerts |-> Len(alerts)]

\* _update_doc_info when the query of the k-th Distillery raises: the
\* Distilleries before it have been handled
UpdateDocInfoUntil(m, order, k, t) ==
    UpdateDocInfo(m, SubSeq(order, 1, k - 1), t)

AlertNotSavedRecorded(m, alert) ==
    [m EXCEPT !.last_alert_date = alert.created_date]

\* _alert when alert.save() raises inside _create_alert: lines 362-364 are
\* not reached
AlertNotSaved(m, alert) == m

FailuresUpdateStatus ==
    /\ pc = "idle"
    /\ raised = Blank
    /\ Len(alerts) < MaxAlerts
    /\ \E order \in Orders : monitor' = SaveMonitor(monitor, order, now)
    /\ row' = monitor'
    /\ IF StatusIsUnhealthy(monitor')
       THEN /\ pc' = "alert"
            /\ old_status' = monitor.status
            /\ before' = Snapshot
       ELSE /\ pc' = "idle"
            /\ old_status' = Blank
            /\ before' = <<>>
    /\ UNCHANGED <<now, docs, alerts, last_call, episode, workers, raised>>

FailuresAlert ==
    /\ pc = "alert"
    /\ raised = Blank
    /\ pc' = "idle"
    /\ old_status' = Blank
    /\ before' = <<>>
    /\ IF ShouldAlert(monitor, old_status, now)
       THEN LET alert == CreateAlert(monitor, now)
                m == RecordAlert(monitor, alert)
            IN  /\ alerts' = Append(alerts, alert)
                /\ \E order \in Orders : monitor' = SaveMonitor(m, order, now)
                /\ row' = monitor'
       ELSE UNCHANGED <<monitor, alerts, row>>
    /\ UNCHANGED <<now, docs, last_call, episode, workers, raised>>

\* a query of the scan raises: in update_status's save(), or in the save()
\* that ends _alert; the exception leaves save() before the database write
FindRaises ==
    /\ raised = Blank
    /\ monitor.id # None
    /\ \E order \in Orders : \E k \in 1..Len(order) :
          IF pc = "idle"
          THEN /\ Len(alerts) < MaxAlerts
               /\ monitor' = UpdateDocInfoUntil(monitor, order, k, now)
               /\ before' = Snapshot
               /\ alerts' = alerts
          ELSE /\ ShouldAlert(monitor, old_status, now)
               /\ LET alert == CreateAlert(monitor, now)
                  IN  /\ alerts' = Append(alerts, alert)
                      /\ monitor' = UpdateDocInfoUntil(RecordAlert(monitor, alert),
                                                        order, k, now)
               /\ before' = before
    /\ raised' = FindError
    /\ pc' = "idle"
    /\ old_status' = Blank
    /\ UNCHANGED <<now, docs, last_call, episode, row, workers>>

\* alert.save() raises in _create_alert
AlertSaveRaises ==
    /\ pc = "alert"
    /\ raised = Blank
    /\ ShouldAlert(monitor, old_status, now)
    /\ monitor' = AlertNotSaved(monitor, CreateAlert(monitor, now))
    /\ raised' = AlertSaveError
    /\ pc' = "idle"
    /\ old_status' = Blank
    /\ UNCHANGED <<now, docs, alerts, last_call, episode, row, workers, before>>

\* the next scheduled evaluation fetches the Monitor from the database
Reload ==
    /\ raised # Blank
    /\ monitor' = row
    /\ raised' = Blank
    /\ before' = <<>>
    /\ UNCHANGED <<now, docs, alerts, pc, old_status, last_call, episode,
                   row, workers>>

FailuresNext ==
    \/ Tick
    \/ DocSaved
    \/ FailuresUpdateStatus
    \/ FailuresAlert
    \/ FindRaises
    \/ AlertSaveRaises
    \/ Reload

SpecFailures == Init /\ [][FailuresNext]_vars

\* ------------------------------------------------------ concurrent calls
\* SpecConcurrent: two workers evaluate the same Monitor. Each fetches its
\* own Monitor instance from the database row and calls update_status on
\* it; save() writes the instance's fields to the row. The Distilleries
\* stay silent, so the row turns Unhealthy once and stays so.
Workers == {1, 2}

Idle == [pc |-> "idle", m |-> <<>>, old |-> Blank]

ConcurrentInit ==
    /\ now = 0
    /\ docs = [d \in Distilleries |-> None]
    /\ \E iv \in Intervals, ae \in BOOLEAN, ra \in BOOLEAN, order \in Orders :
          monitor = SaveMonitor(NewMonitor(iv, ae, ra), order, now)
    /\ row = monitor
    /\ workers = [w \in Workers |-> Idle]
    /\ alerts = <<>>
    /\ pc = "idle"
    /\ old_status = Blank
    /\ last_call = <<>>
    /\ episode = 0
    /\ raised = Blank
    /\ before = <<>>

\* a worker fetches the Monitor
Fetch(w) ==
    /\ workers[w].pc = "idle"
    /\ Len(alerts) < MaxAlerts
    /\ workers' = [workers EXCEPT ![w] = [pc |-> "fetched", m |-> row, old |-> Blank]]
    /\ UNCHANGED <<now, docs, monitor, alerts, pc, old_status, last_call,
                   episode, row, raised, before>>

\* update_status up to the test of self.status
WorkerUpdateStatus(w) ==
    /\ workers[w].pc = "fetched"
    /\ \E order \in Orders :
          LET m == SaveMonitor(workers[w].m, order, now)
          IN  /\ row' = m
              /\ workers' = [workers EXCEPT ![w] =
                    [pc |-> IF StatusIsUnhealthy(m) THEN "alert" ELSE "done",
                     m |-> m,
                     old |-> workers[w].m.status]]
    /\ UNCHANGED <<now, docs, monitor, alerts, pc, old_status, last_call,
                   episode, raised, before>>

\* update_status from the call of _alert(old_status) to its return
WorkerAlert(w) ==
    /\ workers[w].pc = "alert"
    /\ IF ShouldAlert(workers[w].m, workers[w].old, now)
       THEN LET alert == CreateAlert(workers[w].m, now)
            IN  /\ alerts' = Append(alerts, alert)
                /\ \E order \in Orders :
                      LET m == SaveMonitor(RecordAlert(workers[w].m, alert),
                                           order, now)
                      IN  /\ row' = m
                          /\ workers' = [workers EXCEPT ![w].pc = "done",
                                                        ![w].m = m]
       ELSE /\ workers' = [workers EXCEPT ![w].pc = "done"]
            /\ UNCHANGED <<alerts, row>>
    /\ UNCHANGED <<now, docs, monitor, pc, old_status, last_call, episode,
                   raised, before>>

\* the worker drops its instance once both calls have returned
Release ==
    /\ \A w \in Workers : workers[w].pc = "done"
    /\ workers' = [w \in Workers |-> Idle]
    /\ UNCHANGED <<now, docs, monitor, alerts, pc, old_status, last_call,
                   episode, row, raised, before>>

ConcurrentNext ==
    \/ Tick
    \/ \E w \in Workers : Fetch(w)
    \/ \E w \in Workers : WorkerUpdateStatus(w)
    \/ \E w \in Workers : WorkerAlert(w)
    \/ Release

SpecConcurrent == ConcurrentInit /\ [][ConcurrentNext]_vars

\* -------------------------------------------------------- unbounded time
\* SpecLive: the Distilleries stay silent, the clock never stops and
\* update_status is called again and again. The Monitor reads its dates only
\* through now - date compared with time_interval, so once the clock shows
\* MaxTime a tick moves every date one second back instead, and a date that
\* reaches 0 stays there: it is then MaxTime or more seconds old, which is
\* older than every interval (MaxTime > the largest of Intervals). Alerts
\* older than the newest are dropped; nothing reads them.
Older(date) ==
    IF date = None \/ date = 0 THEN date ELSE date - 1

LiveTick ==
    /\ IF now < MaxTime
       THEN /\ now' = now + 1
            /\ monitor' = monitor
       ELSE /\ now' = now
            /\ monitor' = [monitor EXCEPT
                  !.created_date = Older(monitor.created_date),
                  !.last_healthy = Older(monitor.last_healthy),
                  !.last_alert_date = Older(monitor.last_alert_date)]
    /\ UNCHANGED <<docs, alerts, pc, old_status, last_call, episode, aux>>

\* update_status up to the test of self.status
LiveUpdateStatus ==
    /\ pc = "idle"
    /\ \E order \in Orders : monitor' = SaveMonitor(monitor, order, now)
    /\ last_call' = <<>>
    /\ IF StatusIsUnhealthy(monitor')
       THEN /\ pc' = "alert"
            /\ old_status' = monitor.status
       ELSE /\ pc' = "idle"
            /\ old_status' = Blank
    /\ UNCHANGED <<now, docs, alerts, episode, aux>>

\* update_status from the call of _alert(old_status) to its return
LiveAlert ==
    /\ pc = "alert"
    /\ pc' = "idle"
    /\ old_status' = Blank
    /\ IF ShouldAlert(monitor, old_status, now)
       THEN LET alert == CreateAlert(monitor, now)
                m == RecordAlert(monitor, alert)
            IN  /\ alerts' = <<alert>>
                /\ \E order \in Orders : monitor' = SaveMonitor(m, order, now)
                /\ last_call' = <<Call(old_status, monitor', 1)>>
       ELSE /\ last_call' = <<Call(old_status, monitor, 0)>>
            /\ UNCHANGED <<monitor, alerts>>
    /\ UNCHANGED <<now, docs, episode, aux>>

LiveNext == LiveTick \/ LiveUpdateStatus \/ LiveAlert

\* the clock advances, the scheduler keeps calling update_status, and a
\* call that has started finishes
SpecLive ==
    /\ Init
    /\ [][LiveNext]_vars
    /\ WF_vars(LiveTick)
    /\ WF_vars(LiveUpdateStatus)
    /\ WF_vars(LiveAlert)

\* ------------------------------------------------------- claim vocabulary
Enabled == monitor.alerts_enabled
Repeating == monitor.repeating_alerts
Interval == monitor.time_interval

\* the instant inactivity is counted from: lastHealthyAt, or createdAt when
\* lastHealthyAt is unset
Base(m) == IF m.last_healthy # None THEN m.last_healthy ELSE m.created_date

\* a step of the Monitor: neither the clock nor a Distillery moves
MonitorStep == now' = now /\ docs' = docs

\* a step that runs Monitor.save: Save and UpdateStatus (the steps taken from
\* "idle"), and Alert when it creates an Alert
Persists == MonitorStep /\ (pc = "idle" \/ alerts' # alerts)

\* the step that starts an update_status call (a plain save() clears
\* last_call, an update_status call that returns at once sets it)
Called == MonitorStep /\ pc = "idle" /\ (pc' = "alert" \/ last_call' # <<>>)

\* the step in which an update_status call returns
Returns == MonitorStep /\ pc' = "idle" /\ (pc = "alert" \/ last_call' # <<>>)

NoDocs == \A d \in Distilleries : docs[d] = None

\* C1: after every persistence of the Monitor the stored status is Unhealthy
\* exactly when now - (lastHealthyAt, or createdAt when lastHealthyAt is
\* unset) is strictly greater than the interval; equality is Healthy.
C1_StatusAfterPersistence ==
    [][Persists =>
         /\ monitor'.status \in {HEALTHY, UNHEALTHY}
         /\ monitor'.status = UNHEALTHY
               <=> now' - Base(monitor') > monitor'.time_interval]_vars

\* reached: a save at inactivity exactly equal to the interval left the
\* Monitor Healthy
C1_Witness ==
    /\ monitor.id # None
    /\ pc = "idle"
    /\ last_call = <<>>
    /\ monitor.last_healthy # None
    /\ now - monitor.last_healthy = Interval
    /\ monitor.status = HEALTHY

\* C2: lastHealthyAt never decreases and, once set, is never unset, in any
\* step of the Monitor or of its Distilleries.
C2_LastHealthyMonotonic ==
    [][monitor.last_healthy # None =>
         /\ monitor'.last_healthy # None
         /\ monitor'.last_healthy >= monitor.last_healthy]_vars

\* reached: lastHealthyAt is set and a scan from this state finds, in another
\* Distillery, a document older than it
C2_Witness ==
    /\ monitor.id # None
    /\ monitor.last_healthy # None
    /\ \E d \in Distilleries :
          /\ d # monitor.last_active_distillery
          /\ GetMostRecentDoc(monitor, d, now) # None
          /\ GetMostRecentDoc(monitor, d, now) < monitor.last_healthy

\* C3: alerts enabled, not repeating: when an update_status call that found
\* the Monitor Healthy returned Unhealthy and the next call, with no other
\* save() between them, evaluates to Unhealthy too, the first call created
\* one Alert and the second creates none.
C3_OneAlertForTwoUnhealthyCalls ==
    [][(/\ pc = "alert"
        /\ Enabled
        /\ ~Repeating
        /\ last_call # <<>>
        /\ last_call[1].old = HEALTHY
        /\ last_call[1].ret = UNHEALTHY)
       => (last_call[1].fired = 1 /\ alerts' = alerts)]_vars

\* reached: the second of two such calls has returned Unhealthy without an
\* Alert, the only Alert being the one of the first call
C3_Witness ==
    /\ Enabled
    /\ ~Repeating
    /\ pc = "idle"
    /\ last_call = <<[old |-> UNHEALTHY, ret |-> UNHEALTHY, fired |-> 0]>>
    /\ Len(alerts) = 1
    /\ episode = 1

\* C4: alerts enabled, repeating, the Monitor Unhealthy before the call and
\* still Unhealthy: when more than the interval has passed since the last
\* Alert's created_date, update_status creates a new Alert.
C4_RepeatAlertAfterInterval ==
    [][(/\ pc = "alert"
        /\ pc' = "idle"
        /\ Enabled
        /\ Repeating
        /\ old_status = UNHEALTHY
        /\ monitor.last_alert_date # None
        /\ now - monitor.last_alert_date > Interval)
       => (/\ Len(alerts') = Len(alerts) + 1
           /\ alerts'[Len(alerts')].created_date = now)]_vars

\* reached: a repeating Monitor that stayed Unhealthy holds two Alerts created
\* more than the interval apart
C4_Witness ==
    /\ Enabled
    /\ Repeating
    /\ pc = "idle"
    /\ Len(alerts) = 2
    /\ alerts[2].created_date - alerts[1].created_date > Interval
    /\ last_call # <<>>
    /\ last_call[1].old = UNHEALTHY
    /\ last_call[1].fired = 1
    /\ episode = 2

\* C5: repeating, the Monitor Unhealthy before the call, lastAlertAt set:
\* update_status creates no Alert when now - lastAlertAt is not strictly
\* greater than the interval, from 0 seconds up to exactly the interval.
C5_NoRepeatWithinInterval ==
    [][(/\ pc = "alert"
        /\ pc' = "idle"
        /\ Repeating
        /\ old_status = UNHEALTHY
        /\ monitor.last_alert_date # None
        /\ now - monitor.last_alert_date <= Interval)
       => alerts' = alerts]_vars

\* C6: while alerts_enabled is false no step creates an Alert or changes
\* last_alert_date / last_alert_id, and update_status still returns Unhealthy
\* when the Monitor is overdue.
C6_DisabledNeverAlerts ==
    [][~Enabled =>
         /\ alerts' = alerts
         /\ alerts = <<>>
         /\ monitor'.last_alert_date = None
         /\ monitor'.last_alert_id = None
         /\ (Returns /\ now - Base(monitor') > Interval)
               => monitor'.status = UNHEALTHY]_vars

\* reached: with alerts disabled an update_status call took the Monitor from
\* Healthy to Unhealthy and no Alert exists
C6_Witness ==
    /\ ~Enabled
    /\ pc = "idle"
    /\ last_call = <<[old |-> HEALTHY, ret |-> UNHEALTHY, fired |-> 0]>>
    /\ monitor.status = UNHEALTHY
    /\ alerts = <<>>
    /\ monitor.last_alert_date = None

\* C7: a persisted, alerts-enabled Monitor with Healthy status whose
\* Distilleries never held a document: an update_status call made strictly
\* later than created_date + interval evaluates to Unhealthy, creates exactly
\* one Alert and returns Unhealthy.
C7_FirstOverdueCallAlerts ==
    [][/\ (/\ Called
            /\ Enabled
            /\ monitor.id # None
            /\ monitor.status = HEALTHY
            /\ NoDocs
            /\ now > monitor.created_date + Interval)
           => (pc' = "alert" /\ alerts' = alerts)
       /\ (/\ pc = "alert"
            /\ pc' = "idle"
            /\ Enabled
            /\ old_status = HEALTHY
            /\ NoDocs)
           => (/\ Len(alerts') = Len(alerts) + 1
               /\ monitor'.status = UNHEALTHY)]_vars

\* reached: such a call has returned Unhealthy with the Monitor's only Alert
C7_Witness ==
    /\ Enabled
    /\ NoDocs
    /\ pc = "idle"
    /\ last_call = <<[old |-> HEALTHY, ret |-> UNHEALTHY, fired |-> 1]>>
    /\ Len(alerts) = 1
    /\ alerts[1].created_date > monitor.created_date + Interval

\* C8: alerts enabled, not repeating: every unhealthy episode gets exactly one
\* Alert, also one whose Unhealthy status was first persisted by a plain
\* save(): whenever update_status returns Unhealthy, the current episode
\* holds exactly one Alert.
C8_OneAlertPerEpisode ==
    [][(/\ pc = "alert"
        /\ pc' = "idle"
        /\ Enabled
        /\ ~Repeating
        /\ monitor'.status = UNHEALTHY)
       => episode' = 1]_vars

\* the queries _update_doc_info issues from the current state, per order
ScanQueries ==
    UNION {{QueryTrace(monitor, order, now)[i] : i \in 1..Len(order)} :
              order \in Orders}

\* the triple _update_doc_info leaves when it scans in the given order
Refreshed(order) ==
    LET m == UpdateDocInfo(monitor, order, now)
    IN  <<m.last_healthy, m.last_active_distillery, m.last_saved_doc>>

StrictlyNewest(d) ==
    /\ docs[d] # None
    /\ \A e \in Distilleries \ {d} : docs[e] < docs[d]

NewestTie ==
    \E d \in Distilleries, e \in Distilleries :
        d # e /\ docs[d] # None /\ docs[d] = docs[e]

C10_OrderIndependent ==
    monitor.id # None =>
        LET r == [o \in Orders |-> Refreshed(o)]
        IN  /\ \A o1 \in Orders, o2 \in Orders : r[o1] = r[o2]
            /\ \A d \in Distilleries :
                  StrictlyNewest(d) =>
                      \A o \in Orders : r[o][1] = docs[d] /\ r[o][2] = d

\* C10 as amended: last_healthy is the same for every iteration order; the
\* whole triple is the same unless two Distilleries' newest documents carry
\* the same date; and when one Distillery's newest document is strictly newer
\* than every other's and newer than the query start time, the scan ends
\* with that Distillery, that document's date and that document's id.
C10_OrderIndependentWithoutTie ==
    monitor.id # None =>
        LET r == [o \in Orders |-> Refreshed(o)]
        IN  /\ \A o1 \in Orders, o2 \in Orders :
                  /\ r[o1][1] = r[o2][1]
                  /\ ~NewestTie => r[o1] = r[o2]
            /\ \A d \in Distilleries :
                  (StrictlyNewest(d) /\ docs[d] > GetQueryStartTime(monitor, now))
                      => \A o \in Orders : r[o] = <<docs[d], d, DocId(d, docs[d])>>

\* reached: both Distilleries hold documents, A's strictly newer and not yet
\* seen by the Monitor, and a scan in either order picks A's
C10_Witness ==
    /\ monitor.id # None
    /\ docs["B"] # None
    /\ docs["A"] > docs["B"]
    /\ docs["B"] > GetQueryStartTime(monitor, now)
    /\ monitor.last_active_distillery # "A"
    /\ \A o \in Orders : Refreshed(o)[2] = "A"

\* the step of _alert that creates an Alert
Fires == Len(alerts') = Len(alerts) + 1

\* C14: last_alert_date and last_alert_id are both unset while the Monitor
\* has created no Alert, and otherwise are the created_date and the pk of
\* the Alert it created last; they change only in a step that creates one.
C14_BookkeepingIsLastAlert ==
    IF alerts = <<>>
    THEN monitor.last_alert_date = None /\ monitor.last_alert_id = None
    ELSE /\ monitor.last_alert_date = alerts[Len(alerts)].created_date
         /\ monitor.last_alert_id = alerts[Len(alerts)].pk
         /\ monitor.last_alert_id = Len(alerts)

\* reached: the Monitor has created two Alerts and records the second
C14_Witness ==
    /\ Len(alerts) = 2
    /\ monitor.last_alert_id = 2
    /\ alerts[1].created_date < alerts[2].created_date
    /\ monitor.last_alert_date = alerts[2].created_date

\* C15: every Alert carries the Monitor's alert_level, last_active_distillery
\* and last_saved_doc as they stand when _alert runs, after the scan of that
\* update_status call; the last two are null when the Monitor has never
\* observed a document.
C15_AlertCarriesContext ==
    [][Fires =>
         LET a == alerts'[Len(alerts')]
         IN  /\ a.level = monitor.alert_level
             /\ a.distillery = monitor.last_active_distillery
             /\ a.doc_id = monitor.last_saved_doc
             /\ monitor.last_healthy = None
                   => (a.distillery = NoSink /\ a.doc_id = NoDoc)
             /\ monitor.last_healthy # None
                   => (/\ a.distillery \in Distilleries
                       /\ a.doc_id = DocId(a.distillery, monitor.last_healthy))]_vars

\* reached: an Alert that points at the last document the Monitor saw
C15_Witness ==
    /\ alerts # <<>>
    /\ alerts[Len(alerts)].distillery = "B"
    /\ alerts[Len(alerts)].doc_id = DocId("B", docs["B"])
    /\ docs["A"] # None

\* C16: the save of a new, never persisted Monitor leaves last_healthy,
\* last_active_distillery and last_saved_doc unset whatever the Distilleries
\* hold, and computes the status (Healthy: no inactivity is counted yet).
C16_NewMonitorSkipsScan ==
    [][(Persists /\ monitor.id = None) =>
         /\ monitor'.id # None
         /\ monitor'.last_healthy = None
         /\ monitor'.last_active_distillery = NoSink
         /\ monitor'.last_saved_doc = NoDoc
         /\ monitor'.status = HEALTHY]_vars

\* reached: a Monitor persisted with nothing recorded while both Distilleries
\* hold a document a scan from this state would find
C16_Witness ==
    /\ monitor.id # None
    /\ monitor.created_date = now
    /\ monitor.last_healthy = None
    /\ \A d \in Distilleries : Find(d, GetQueryStartTime(monitor, now)) # None

\* C17: update_status creates an Alert only when the status computed by its
\* own save() is Unhealthy: a call whose save() yields Healthy returns at
\* once, creates no Alert and leaves last_alert_date / last_alert_id alone.
C17_NoAlertWhenHealthy ==
    [][/\ (Called /\ monitor'.status # UNHEALTHY)
           => (/\ pc' = "idle"
               /\ alerts' = alerts
               /\ monitor'.last_alert_date = monitor.last_alert_date
               /\ monitor'.last_alert_id = monitor.last_alert_id)
       /\ Fires => monitor.status = UNHEALTHY]_vars

\* reached: a call found the Monitor Unhealthy, with an Alert behind it, and
\* returned Healthy
C17_Witness ==
    /\ pc = "idle"
    /\ last_call = <<[old |-> UNHEALTHY, ret |-> HEALTHY, fired |-> 0]>>
    /\ alerts # <<>>
    /\ Enabled
    /\ Repeating

C19_AlertingCallReturnsUnhealthy ==
    [][Fires => monitor'.status = UNHEALTHY]_vars

\* C19 as amended: whenever an update_status call creates an Alert, the
\* status computed by the call's own save() is Unhealthy, and the status it
\* returns is Unhealthy unless the save() of _alert finds a newer document.
C19_AlertingCallSawUnhealthy ==
    [][Fires =>
         /\ monitor.status = UNHEALTHY
         /\ monitor'.last_healthy = monitor.last_healthy
               => monitor'.status = UNHEALTHY]_vars

\* reached: a call that created an Alert and returned Healthy
C19_Witness ==
    /\ pc = "idle"
    /\ last_call # <<>>
    /\ last_call[1].fired = 1
    /\ last_call[1].ret = HEALTHY
    /\ monitor.last_alert_date = now

\* C12 as stated: when a Distillery query raises during the scan, the error
\* leaves the call and every field of the Monitor (status, last_healthy,
\* last_active_distillery, last_saved_doc, last_alert_date, last_alert_id)
\* keeps the value it had before the call, also when Distilleries scanned
\* before the failing one returned newer documents.
C12_FieldsKeptWhenFindRaises ==
    raised = FindError =>
        /\ monitor.status = before.monitor.status
        /\ monitor.last_healthy = before.monitor.last_healthy
        /\ monitor.last_active_distillery = before.monitor.last_active_distillery
        /\ monitor.last_saved_doc = before.monitor.last_saved_doc
        /\ monitor.last_alert_date = before.monitor.last_alert_date
        /\ monitor.last_alert_id = before.monitor.last_alert_id

\* C13: when alert.save() raises during update_status, the error leaves the
\* call, no Alert is added, and last_alert_date / last_alert_id keep the
\* values they had before the call, in memory and in the database.
C13_BookkeepingKeptWhenAlertSaveRaises ==
    raised = AlertSaveError =>
        /\ pc = "idle"
        /\ Len(alerts) = before.alerts
        /\ monitor.last_alert_date = before.monitor.last_alert_date
        /\ monitor.last_alert_id = before.monitor.last_alert_id
        /\ row.last_alert_date = before.monitor.last_alert_date
        /\ row.last_alert_id = before.monitor.last_alert_id

\* reached: alert.save() raised for a repeat Alert that was due, after a
\* first Alert had been recorded
C13_Witness ==
    /\ raised = AlertSaveError
    /\ Len(alerts) = 1
    /\ monitor.last_alert_id = 1
    /\ monitor.last_alert_date < now
    /\ monitor.status = UNHEALTHY

\* C11 as stated: under every interleaving of two concurrent update_status
\* calls on the same alerts-enabled, non-repeating Monitor that observe the
\* same Healthy -> Unhealthy transition (each saw the status Healthy before
\* its save() and Unhealthy after it), at most one Alert is created.
C11_OneAlertForConcurrentCalls ==
    (/\ row.alerts_enabled
     /\ ~row.repeating_alerts
     /\ \A w \in Workers : /\ workers[w].pc = "done"
                            /\ workers[w].old = HEALTHY
                            /\ workers[w].m.status = UNHEALTHY)
        => Len(alerts) <= 1

\* C20: for an alerts-enabled, repeating Monitor whose Distilleries stay
\* silent for ever, with the clock advancing and update_status called again
\* and again, Alerts are created infinitely often: from every state, a later
\* update_status call creates one (every call clears last_call as it starts).
C20_RepeatingAlertsForever ==
    []<>(\/ ~(Enabled /\ Repeating)
         \/ (pc = "idle" /\ last_call # <<>> /\ last_call[1].fired = 1))

\* reached: an Alert created after an earlier one, long after the clock
\* reached MaxTime
C20_Witness ==
    /\ Enabled
    /\ Repeating
    /\ now = MaxTime
    /\ pc = "idle"
    /\ last_call # <<>>
    /\ last_call[1].fired = 1
    /\ last_call[1].old = UNHEALTHY
    /\ monitor.last_alert_id = 2
    /\ monitor.last_alert_date = now
    /\ monitor.created_date = 0
    /\ Interval = 2
====
